---- MODULE Spec2Model ----
(***************************************************************************)
(* Model of the OurAirports importer (cmd/importer/main.go).               *)
(*                                                                         *)
(* Text is modelled as a sequence of one-character strings, so that        *)
(* strings.TrimSpace, strconv.Atoi, strconv.ParseBool and                  *)
(* strconv.ParseFloat are computed character by character.  Go int values *)
(* are kept as canonical decimal numerals (a sequence of characters), so   *)
(* that the 64-bit range of int is represented exactly.  Floating point    *)
(* values are kept as canonical decimal numerals as well; float64 rounding *)
(* and the exponent, hexadecimal, "inf" and "nan" spellings are outside    *)
(* the alphabet the inputs are drawn from.                                 *)
(***************************************************************************)
EXTENDS Integers, Sequences, FiniteSets, TLC

VARIABLES pc, idx, upstream, db, txnOpen, txnRows, reader, log, halt,
          prevDone, call, ret

vars == <<pc, idx, upstream, db, txnOpen, txnRows, reader, log, halt,
          prevDone, call, ret>>

pipelineVars == <<pc, idx, upstream, db, txnOpen, txnRows, reader, log, halt,
                  prevDone>>

(***************************************************************************)
(* Bounds of the model.                                                    *)
(***************************************************************************)
\* data records of a well-formed upstream CSV: 0..MaxRows
MaxRows == 2
\* length of the generated field texts handed to the row transformer
MaxLen == 2
\* number of datasets whose upstream file is not the well-formed full file
MaxDeviations == 1

(***************************************************************************)
(* Characters and text.                                                    *)
(***************************************************************************)
Digits == {"0", "1", "2", "3", "4", "5", "6", "7", "8", "9"}

DigitVal ==
  "0" :> 0 @@ "1" :> 1 @@ "2" :> 2 @@ "3" :> 3 @@ "4" :> 4 @@
  "5" :> 5 @@ "6" :> 6 @@ "7" :> 7 @@ "8" :> 8 @@ "9" :> 9

DigitChar == <<"0", "1", "2", "3", "4", "5", "6", "7", "8", "9">>

SetMin(S) == CHOOSE m \in S : \A n \in S : m <= n
SetMax(S) == CHOOSE m \in S : \A n \in S : m >= n

IsSpace(c) == c \in {" ", "\t", "\n", "\r"}

\* strings.TrimSpace: drop leading and trailing white space
TrimSpace(s) ==
  LET ns == {i \in 1..Len(s) : ~IsSpace(s[i])}
  IN  IF ns = {} THEN <<>> ELSE SubSeq(s, SetMin(ns), SetMax(ns))

\* digits without their leading zeros; "0" when nothing else is left
StripLeadingZeros(ds) ==
  LET nz == {i \in 1..Len(ds) : ds[i] # "0"}
  IN  IF nz = {} THEN <<"0">> ELSE SubSeq(ds, SetMin(nz), Len(ds))

StripTrailingZeros(ds) ==
  LET nz == {i \in 1..Len(ds) : ds[i] # "0"}
  IN  IF nz = {} THEN <<>> ELSE SubSeq(ds, 1, SetMax(nz))

\* a > b for canonical magnitudes (no leading zeros)
MagGreater(a, b) ==
  \/ Len(a) > Len(b)
  \/ /\ Len(a) = Len(b)
     /\ \E i \in 1..Len(a) :
          /\ DigitVal[a[i]] > DigitVal[b[i]]
          /\ \A j \in 1..(i - 1) : a[j] = b[j]

\* 1<<63 - 1, the largest int of a 64-bit build, and 1<<63
MaxInt64Mag ==
  <<"9", "2", "2", "3", "3", "7", "2", "0", "3", "6", "8", "5", "4", "7",
    "7", "5", "8", "0", "7">>
MinInt64Mag ==
  <<"9", "2", "2", "3", "3", "7", "2", "0", "3", "6", "8", "5", "4", "7",
    "7", "5", "8", "0", "8">>

(***************************************************************************)
(* strconv.Atoi(s): (value, err).  A syntax error returns 0; a range error *)
(* returns the nearest bound of int; the numeral is base 10 with an        *)
(* optional sign.                                                          *)
(***************************************************************************)
Atoi(s) ==
  LET signed == s # <<>> /\ s[1] \in {"+", "-"}
      neg    == s # <<>> /\ s[1] = "-"
      body   == IF signed THEN Tail(s) ELSE s
      syntax == body = <<>> \/ \E i \in 1..Len(body) : body[i] \notin Digits
      mag    == StripLeadingZeros(body)
      bound  == IF neg THEN MinInt64Mag ELSE MaxInt64Mag
  IN  IF syntax THEN [v |-> <<"0">>, err |-> "syntax"]
      ELSE IF MagGreater(mag, bound)
        THEN [v |-> (IF neg THEN <<"-">> ELSE <<>>) \o bound, err |-> "range"]
      ELSE [v |-> (IF neg /\ mag # <<"0">> THEN <<"-">> ELSE <<>>) \o mag,
            err |-> "nil"]

(***************************************************************************)
(* strconv.ParseBool(s): (value, err); any other text returns false.       *)
(***************************************************************************)
ParseBool(s) ==
  IF s \in {<<"1">>, <<"t">>, <<"T">>, <<"T", "R", "U", "E">>,
            <<"t", "r", "u", "e">>, <<"T", "r", "u", "e">>}
    THEN [v |-> TRUE, err |-> "nil"]
  ELSE IF s \in {<<"0">>, <<"f">>, <<"F">>, <<"F", "A", "L", "S", "E">>,
                 <<"f", "a", "l", "s", "e">>, <<"F", "a", "l", "s", "e">>}
    THEN [v |-> FALSE, err |-> "nil"]
  ELSE [v |-> FALSE, err |-> "syntax"]

(***************************************************************************)
(* strconv.ParseFloat(s, 64): (value, err) for plain decimal numerals      *)
(* [sign] digits [. digits]; any other text is a syntax error returning 0. *)
(***************************************************************************)
ParseFloat(s) ==
  LET signed == s # <<>> /\ s[1] \in {"+", "-"}
      neg    == s # <<>> /\ s[1] = "-"
      body   == IF signed THEN Tail(s) ELSE s
      dots   == {i \in 1..Len(body) : body[i] = "."}
      syntax == \/ \E i \in 1..Len(body) : body[i] \notin Digits \cup {"."}
                \/ Cardinality(dots) > 1
                \/ \A i \in 1..Len(body) : body[i] \notin Digits
      dot    == IF dots = {} THEN Len(body) + 1 ELSE SetMin(dots)
      ip     == StripLeadingZeros(SubSeq(body, 1, dot - 1))
      fp     == StripTrailingZeros(SubSeq(body, dot + 1, Len(body)))
  IN  IF syntax THEN [v |-> <<"0">>, err |-> "syntax"]
      ELSE [v |-> (IF neg THEN <<"-">> ELSE <<>>) \o ip \o
                  (IF fp = <<>> THEN <<>> ELSE <<".">> \o fp),
            err |-> "nil"]

(***************************************************************************)
(* Values of the []any slice handed to the bulk insert.                    *)
(***************************************************************************)
IntV(n)    == [t |-> "int", v |-> n]
FloatV(x)  == [t |-> "float64", v |-> x]
StringV(s) == [t |-> "string", v |-> s]
BoolV(b)   == [t |-> "bool", v |-> b]

(***************************************************************************)
(* The dataset list and the column definitions.                            *)
(***************************************************************************)
\* the mutant has two of the file names exchanged
filenames_swapped ==
  << <<"airports", ".csv">>,
     <<"airport", "-", "frequencies", ".csv">>,
     <<"navaids", ".csv">>,
     <<"countries", ".csv">>,
     <<"regions", ".csv">>,
     <<"runways", ".csv">> >>

\* a file name is kept as the sequence of its parts, so that
\* strings.ReplaceAll acts on it
filenames ==
  << <<"airports", ".csv">>,
     <<"airport", "-", "frequencies", ".csv">>,
     <<"countries", ".csv">>,
     <<"navaids", ".csv">>,
     <<"regions", ".csv">>,
     <<"runways", ".csv">> >>

Col(n, ty) == [name |-> n, type |-> ty]

airport_table_columns ==
  << Col("id", "int IDENTITY(1,1)"),
     Col("ident", "nvarchar(20)"),
     Col("type", "nvarchar(20)"),
     Col("name", "nvarchar(255)"),
     Col("latitude_deg", "decimal(12, 9)"),
     Col("longitude_deg", "decimal(12, 9)"),
     Col("elevation_ft", "int"),
     Col("continent", "nvarchar(20)"),
     Col("iso_country", "nvarchar(20)"),
     Col("iso_region", "nvarchar(20)"),
     Col("municipality", "nvarchar(255)"),
     Col("scheduled_service", "nvarchar(20)"),
     Col("gps_code", "nvarchar(20)"),
     Col("iata_code", "nvarchar(20)"),
     Col("local_code", "nvarchar(20)"),
     Col("home_link", "nvarchar(512)"),
     Col("wikipedia_link", "nvarchar(512)"),
     Col("keywords", "nvarchar(512)") >>

airport_frequency_table_columns ==
  << Col("id", "int IDENTITY(1,1)"),
     Col("airport_ref", "int"),
     Col("airport_ident", "nvarchar(20)"),
     Col("type", "nvarchar(20)"),
     Col("description", "nvarchar(512)"),
     Col("frequency_mhz", "nvarchar(20)") >>

countries_table_columns ==
  << Col("id", "int IDENTITY(1,1)"),
     Col("code", "nvarchar(20)"),
     Col("name", "nvarchar(255)"),
     Col("continent", "nvarchar(20)"),
     Col("wikipedia_link", "nvarchar(512)"),
     Col("keywords", "nvarchar(512)") >>

navaids_table_columns ==
  << Col("id", "int IDENTITY(1,1)"),
     Col("filename", "nvarchar(255)"),
     Col("ident", "nvarchar(20)"),
     Col("name", "nvarchar(255)"),
     Col("type", "nvarchar(20)"),
     Col("frequency_khz", "int"),
     Col("latitude_deg", "decimal(12, 9)"),
     Col("longitude_deg", "decimal(12, 9)"),
     Col("elevation_ft", "int"),
     Col("iso_country", "nvarchar(20)"),
     Col("dme_frequency_khz", "int"),
     Col("dme_channel", "nvarchar(20)"),
     Col("dme_latitude_deg", "decimal(12, 9)"),
     Col("dme_longitude_deg", "decimal(12, 9)"),
     Col("dme_elevation_ft", "int"),
     Col("slaved_variation_deg", "decimal(12, 9)"),
     Col("magnetic_variation_deg", "decimal(12, 9)"),
     Col("usageType", "nvarchar(20)"),
     Col("power", "nvarchar(20)"),
     Col("associated_airport", "nvarchar(20)") >>

regions_table_columns ==
  << Col("id", "int IDENTITY(1,1)"),
     Col("code", "nvarchar(20)"),
     Col("local_code", "nvarchar(20)"),
     Col("name", "nvarchar(255)"),
     Col("continent", "nvarchar(20)"),
     Col("iso_country", "nvarchar(20)"),
     Col("wikipedia_link", "nvarchar(512)"),
     Col("keywords", "nvarchar(512)") >>

runways_table_columns ==
  << Col("id", "int IDENTITY(1,1)"),
     Col("airport_ref", "int"),
     Col("airport_ident", "nvarchar(20)"),
     Col("length_ft", "int"),
     Col("width_ft", "int"),
     Col("surface", "nvarchar(255)"),
     Col("lighted", "bit"),
     Col("closed", "bit"),
     Col("le_ident", "nvarchar(20)"),
     Col("le_latitude_deg", "decimal(12, 9)"),
     Col("le_longitude_deg", "decimal(12, 9)"),
     Col("le_elevation_ft", "int"),
     Col("le_heading_degT", "int"),
     Col("le_displaced_threshold_ft", "int"),
     Col("he_ident", "nvarchar(20)"),
     Col("he_latitude_deg", "decimal(12, 9)"),
     Col("he_longitude_deg", "decimal(12, 9)"),
     Col("he_elevation_ft", "int"),
     Col("he_heading_degT", "int"),
     Col("he_displaced_threshold_ft", "int") >>

\* the mutant compares against the file stem before "-" became "_"
buildCreateTableStatement_stem(table_name) ==
  LET cols_with_types ==
        IF table_name = "dbo.airport-frequencies"
          THEN airport_frequency_table_columns
        ELSE IF table_name = "dbo.countries" THEN countries_table_columns
        ELSE IF table_name = "dbo.navaids" THEN navaids_table_columns
        ELSE IF table_name = "dbo.regions" THEN regions_table_columns
        ELSE IF table_name = "dbo.runways" THEN runways_table_columns
        ELSE airport_table_columns
  IN  [guard |-> "OBJECT_ID IS NULL", table |-> table_name,
       cols |-> cols_with_types]

\* IF OBJECT_ID('<t>', 'U') IS NULL CREATE TABLE <t>(<cols>)
buildCreateTableStatement(table_name) ==
  LET cols_with_types ==
        IF table_name = "dbo.airport_frequencies"
          THEN airport_frequency_table_columns
        ELSE IF table_name = "dbo.countries" THEN countries_table_columns
        ELSE IF table_name = "dbo.navaids" THEN navaids_table_columns
        ELSE IF table_name = "dbo.regions" THEN regions_table_columns
        ELSE IF table_name = "dbo.runways" THEN runways_table_columns
        ELSE airport_table_columns
  IN  [guard |-> "OBJECT_ID IS NULL", table |-> table_name,
       cols |-> cols_with_types]

\* strings.ReplaceAll on the parts of a name
ReplaceAll(parts, old, new) ==
  [i \in 1..Len(parts) |-> IF parts[i] = old THEN new ELSE parts[i]]

RECURSIVE Join(_)
Join(parts) == IF parts = <<>> THEN "" ELSE Head(parts) \o Join(Tail(parts))

\* table := "dbo." + filename without ".csv" and with "-" turned into "_"
TableName(filename) ==
  LET no_ext == ReplaceAll(filename, ".csv", "")
      fn     == ReplaceAll(no_ext, "-", "_")
  IN  "dbo." \o Join(fn)

(***************************************************************************)
(* The row transformer: one branch of processCSV per table.                *)
(***************************************************************************)
Fld(record, i) == TrimSpace(record[i + 1])

AtoiV(s)       == IntV(Atoi(s).v)
ParseFloatV(s) == FloatV(ParseFloat(s).v)
ParseBoolV(s)  == BoolV(ParseBool(s).v)

airportsRow(record) ==
  LET id   == AtoiV(Fld(record, 0))
      lat  == ParseFloatV(Fld(record, 4))
      lon  == ParseFloatV(Fld(record, 5))
      elev == AtoiV(Fld(record, 6))
  IN  << id,
         StringV(Fld(record, 1)),
         StringV(Fld(record, 2)),
         StringV(Fld(record, 3)),
         lat,
         lon,
         elev,
         StringV(Fld(record, 7)),
         StringV(Fld(record, 8)),
         StringV(Fld(record, 9)),
         StringV(Fld(record, 10)),
         StringV(Fld(record, 11)),
         StringV(Fld(record, 12)),
         StringV(Fld(record, 13)),
         StringV(Fld(record, 14)),
         StringV(Fld(record, 15)),
         StringV(Fld(record, 16)),
         StringV(Fld(record, 17)) >>

airportFrequenciesRow(record) ==
  LET id          == AtoiV(Fld(record, 0))
      airport_ref == AtoiV(Fld(record, 1))
  IN  << id,
         airport_ref,
         StringV(Fld(record, 2)),
         StringV(Fld(record, 3)),
         StringV(Fld(record, 4)),
         StringV(Fld(record, 5)) >>

countriesRow(record) ==
  LET id == AtoiV(Fld(record, 0))
  IN  << id,
         StringV(Fld(record, 1)),
         StringV(Fld(record, 2)),
         StringV(Fld(record, 3)),
         StringV(Fld(record, 4)),
         StringV(Fld(record, 5)) >>

navaidsRow(record) ==
  LET id                     == AtoiV(Fld(record, 0))
      frequency_khz          == AtoiV(Fld(record, 5))
      lat                    == ParseFloatV(Fld(record, 6))
      lon                    == ParseFloatV(Fld(record, 7))
      elev                   == AtoiV(Fld(record, 8))
      dme_frequency_khz      == AtoiV(Fld(record, 10))
      dme_latitude_deg       == ParseFloatV(Fld(record, 12))
      dme_longitude_deg      == ParseFloatV(Fld(record, 13))
      dme_elevation_ft       == AtoiV(Fld(record, 14))
      slaved_variation_deg   == ParseFloatV(Fld(record, 15))
      magnetic_variation_deg == ParseFloatV(Fld(record, 16))
  IN  << id,
         StringV(Fld(record, 1)),
         StringV(Fld(record, 2)),
         StringV(Fld(record, 3)),
         StringV(Fld(record, 4)),
         frequency_khz,
         lat,
         lon,
         elev,
         StringV(Fld(record, 9)),
         dme_frequency_khz,
         StringV(Fld(record, 11)),
         dme_latitude_deg,
         dme_longitude_deg,
         dme_elevation_ft,
         slaved_variation_deg,
         magnetic_variation_deg,
         StringV(Fld(record, 17)),
         StringV(Fld(record, 18)),
         StringV(Fld(record, 19)) >>

regionsRow(record) ==
  LET id == AtoiV(Fld(record, 0))
  IN  << id,
         StringV(Fld(record, 1)),
         StringV(Fld(record, 2)),
         StringV(Fld(record, 3)),
         StringV(Fld(record, 4)),
         StringV(Fld(record, 5)),
         StringV(Fld(record, 6)),
         StringV(Fld(record, 7)) >>

runwaysRow(record) ==
  LET id                        == AtoiV(Fld(record, 0))
      airport_ref               == AtoiV(Fld(record, 1))
      length                    == AtoiV(Fld(record, 3))
      width                     == AtoiV(Fld(record, 4))
      lighted                   == ParseBoolV(Fld(record, 6))
      closed                    == ParseBoolV(Fld(record, 7))
      le_latitude_deg           == ParseFloatV(Fld(record, 9))
      le_longitude_deg          == ParseFloatV(Fld(record, 10))
      le_elevation_ft           == AtoiV(Fld(record, 11))
      le_heading_degT           == AtoiV(Fld(record, 12))
      le_displaced_threshold_ft == AtoiV(Fld(record, 13))
      he_latitude_deg           == ParseFloatV(Fld(record, 9))
      he_longitude_deg          == ParseFloatV(Fld(record, 10))
      he_elevation_ft           == AtoiV(Fld(record, 11))
      he_heading_degT           == AtoiV(Fld(record, 12))
      he_displaced_threshold_ft == AtoiV(Fld(record, 13))
  IN  << id,
         airport_ref,
         StringV(Fld(record, 2)),
         length,
         width,
         StringV(Fld(record, 5)),
         lighted,
         closed,
         StringV(Fld(record, 8)),
         le_latitude_deg,
         le_longitude_deg,
         le_elevation_ft,
         le_heading_degT,
         le_displaced_threshold_ft,
         StringV(Fld(record, 14)),
         he_latitude_deg,
         he_longitude_deg,
         he_elevation_ft,
         he_heading_degT,
         he_displaced_threshold_ft >>

\* the source indices record[i] a branch reads
IndicesRead(table) ==
  IF table = "dbo.airports" THEN 0..17
  ELSE IF table = "dbo.airport_frequencies" THEN 0..5
  ELSE IF table = "dbo.countries" THEN 0..5
  ELSE IF table = "dbo.navaids" THEN 0..19
  ELSE IF table = "dbo.regions" THEN 0..7
  ELSE IF table = "dbo.runways" THEN 0..14
  ELSE {}

\* record[i] with i >= len(record): the runtime panics
IndexOutOfRange(table, record) ==
  \E i \in IndicesRead(table) : i >= Len(record)

\* the slice c built for one record
TypedRow(table, record) ==
  IF table = "dbo.airports" THEN airportsRow(record)
  ELSE IF table = "dbo.airport_frequencies" THEN airportFrequenciesRow(record)
  ELSE IF table = "dbo.countries" THEN countriesRow(record)
  ELSE IF table = "dbo.navaids" THEN navaidsRow(record)
  ELSE IF table = "dbo.regions" THEN regionsRow(record)
  ELSE IF table = "dbo.runways" THEN runwaysRow(record)
  ELSE <<>>

(***************************************************************************)
(* encoding/csv: the decoded body is a sequence of lines; a line holds the *)
(* fields decoded from it and whether a bare quote stopped the decoding    *)
(* after those fields.  FieldsPerRecord starts at 0 (parseCSV sets         *)
(* nothing) and is fixed by the first record read.                         *)
(***************************************************************************)
Line(fields, bad) == [fields |-> fields, bad |-> bad]

parseCSV(data) == [lines |-> data, pos |-> 1, FieldsPerRecord |-> 0]

\* reader.Read(): (record, err) and the reader afterwards
Read(r) ==
  IF r.pos > Len(r.lines)
    THEN [record |-> <<>>, err |-> "EOF", reader |-> r]
  ELSE
    LET ln    == r.lines[r.pos]
        count == /\ r.FieldsPerRecord > 0
                 /\ Len(ln.fields) # r.FieldsPerRecord
        fpr   == IF r.FieldsPerRecord = 0 THEN Len(ln.fields)
                 ELSE r.FieldsPerRecord
    IN  [record |-> ln.fields,
         err    |-> IF ln.bad THEN "ErrBareQuote"
                    ELSE IF count THEN "ErrFieldCount" ELSE "nil",
         reader |-> [r EXCEPT !.pos = @ + 1, !.FieldsPerRecord = fpr]]

(***************************************************************************)
(* What the file host serves: per dataset a status and a body.             *)
(***************************************************************************)
\* number of columns of the published files, in the order of filenames
publishedColumns == <<18, 6, 6, 20, 8, 20>>

\* field i (from 0) of data record r; every second field is padded
SampleField(r, i) ==
  LET txt == <<DigitChar[r + 1], DigitChar[(i \div 10) + 1],
               DigitChar[(i % 10) + 1]>>
  IN  IF i % 2 = 1 THEN <<" ">> \o txt \o <<" ">> ELSE txt

SampleRecord(k, r) == [i \in 1..publishedColumns[k] |-> SampleField(r, i - 1)]

HeaderRecord(n) ==
  [i \in 1..n |-> <<"c", DigitChar[((i - 1) \div 10) + 1],
                    DigitChar[((i - 1) % 10) + 1]>>]

NotFoundPage == << <<"4", "0", "4", ":", " ", "N", "o", "t", " ", "F", "o",
                     "u", "n", "d">> >>

Variant(kind, rows) == [kind |-> kind, rows |-> rows]

FullFile == Variant("ok", MaxRows)

Variants ==
  {Variant("ok", n) : n \in 0..MaxRows}
    \cup {Variant("bareQuote", 1), Variant("fieldCount", 1),
          Variant("shortHeader", 1), Variant("notFound", 0)}

\* the response to GET <base_url>/<filenames[k]> for a variant
Response(k, variant) ==
  LET n      == publishedColumns[k]
      header == Line(HeaderRecord(n), FALSE)
      good   == [r \in 1..variant.rows |-> Line(SampleRecord(k, r), FALSE)]
      after  == Line(SampleRecord(k, variant.rows + 1), FALSE)
  IN  IF variant.kind = "ok"
        THEN [status |-> 200, body |-> <<header>> \o good]
      ELSE IF variant.kind = "bareQuote"
        THEN [status |-> 200,
              body |-> <<header>> \o good
                         \o <<Line(SubSeq(after.fields, 1, 2), TRUE)>>
                         \o <<after>>]
      ELSE IF variant.kind = "fieldCount"
        THEN [status |-> 200,
              body |-> <<header>> \o good
                         \o <<Line(SubSeq(after.fields, 1, n - 1), FALSE)>>
                         \o <<after>>]
      ELSE IF variant.kind = "shortHeader"
        THEN [status |-> 200,
              body |-> <<Line(HeaderRecord(3), FALSE),
                         Line(SubSeq(after.fields, 1, 3), FALSE)>>]
      ELSE [status |-> 404, body |-> <<Line(NotFoundPage, FALSE)>>]

Datasets == 1..Len(filenames)

\* at most MaxDeviations datasets are served something else than the full
\* well-formed file
Upstreams ==
  UNION {
    {[k \in Datasets |-> IF k \in S THEN f[k] ELSE FullFile] :
       f \in [S -> Variants \ {FullFile}]}
    : S \in {T \in SUBSET Datasets : Cardinality(T) <= MaxDeviations}}

(***************************************************************************)
(* The database: per table whether it exists, its columns and its          *)
(* committed rows.                                                         *)
(***************************************************************************)
Tables == {TableName(filenames[k]) : k \in Datasets}

NoTable == [exists |-> FALSE, cols |-> <<>>, rows |-> <<>>]

StaleRow == <<StringV(<<"s", "t", "a", "l", "e">>)>>

StaleTable ==
  [exists |-> TRUE, cols |-> <<Col("id", "int")>>, rows |-> <<StaleRow>>]

EmptyTable == [exists |-> TRUE, cols |-> <<Col("id", "int")>>, rows |-> <<>>]

\* all the tables alike, absent or stale, but for one table
InitialDatabases ==
  {[t \in Tables |-> IF t = odd THEN other ELSE base] :
     base \in {NoTable, StaleTable}, odd \in Tables,
     other \in {NoTable, StaleTable, EmptyTable}}

\* the mutant leaves the table and its rows in place
DropTable_keep(d, table) == d

\* IF OBJECT_ID('<t>', 'U') IS NOT NULL DROP TABLE <t>;
DropTable(d, table) ==
  IF d[table].exists THEN [d EXCEPT ![table] = NoTable] ELSE d

\* the mutant has the existence guard inverted
CreateTable_inverted(d, stmt) ==
  IF d[stmt.table].exists
    THEN [d EXCEPT ![stmt.table] =
            [exists |-> TRUE, cols |-> stmt.cols, rows |-> <<>>]]
  ELSE d

\* IF OBJECT_ID('<t>', 'U') IS NULL CREATE TABLE <t>(<cols>)
CreateTable(d, stmt) ==
  IF d[stmt.table].exists THEN d
  ELSE [d EXCEPT ![stmt.table] =
          [exists |-> TRUE, cols |-> stmt.cols, rows |-> <<>>]]

\* the mutant sends the batch outside the transaction
FlushBatch_autocommit(d, table, rows) ==
  [d EXCEPT ![table].rows = @ \o rows]

\* stmt.Exec() on a statement prepared on txn: the batch reaches the server
\* inside the transaction, no row is visible yet
FlushBatch(d, table, rows) == d

\* txn.Commit(): the rows of the batch become the rows of the table
CommitTxn(d, table, rows) == [d EXCEPT ![table].rows = @ \o rows]

(***************************************************************************)
(* The process: main and processCSV, one step per call that can fail or    *)
(* that changes the database.                                              *)
(***************************************************************************)
LogEntry(msg, file, n) == [msg |-> msg, file |-> file, n |-> n]

\* the local variable table of processCSV
table == TableName(filenames[idx])

\* result.RowsAffected() of the batch
RowsAffected(rows) == Len(rows)

NoCall == [fn |-> "none", table |-> "", record |-> <<>>]

Init ==
  /\ pc = "godotenv.Load"
  /\ idx = 1
  /\ upstream \in Upstreams
  /\ db \in InitialDatabases
  /\ txnOpen = FALSE
  /\ txnRows = <<>>
  /\ reader = parseCSV(<<>>)
  /\ log = <<>>
  /\ halt = ""
  /\ prevDone = <<>>
  /\ call = NoCall
  /\ ret = <<>>

\* the calls followed by  if err != nil { log.Fatal(err) }
FatalSteps ==
  {"godotenv.Load", "http.Get", "sql.Open", "db.Begin", "db.Exec(drop)",
   "db.Exec(create)", "txn.Prepare", "stmt.Exec()", "stmt.Close",
   "txn.Commit"}

\* any of these calls returns an error: log.Fatal ends the process
LogFatal ==
  /\ pc \in FatalSteps
  /\ pc' = "fatal"
  /\ halt' = pc
  /\ UNCHANGED <<idx, upstream, db, txnOpen, txnRows, reader, log, prevDone,
                 call, ret>>

LoadEnv ==
  /\ pc = "godotenv.Load"
  /\ pc' = "http.Get"
  /\ UNCHANGED <<idx, upstream, db, txnOpen, txnRows, reader, log, halt,
                 prevDone, call, ret>>

\* http.Get returns a response whatever its status code
HttpGet ==
  /\ pc = "http.Get"
  /\ log' = Append(log, LogEntry("Downloading", Join(filenames[idx]), 0))
  /\ pc' = "io.ReadAll"
  /\ UNCHANGED <<idx, upstream, db, txnOpen, txnRows, reader, halt, prevDone,
                 call, ret>>

ReadAll ==
  /\ pc = "io.ReadAll"
  /\ log' = Append(log, LogEntry("File downloaded", "", 0))
  /\ reader' = parseCSV(Response(idx, upstream[idx]).body)
  /\ pc' = "sql.Open"
  /\ UNCHANGED <<idx, upstream, db, txnOpen, txnRows, halt, prevDone, call,
                 ret>>

\* io.ReadAll fails: main prints the error and returns
ReadAllError ==
  /\ pc = "io.ReadAll"
  /\ log' = Append(log, LogEntry("Error reading file", "", 0))
  /\ pc' = "returned"
  /\ UNCHANGED <<idx, upstream, db, txnOpen, txnRows, reader, halt, prevDone,
                 call, ret>>

SqlOpen ==
  /\ pc = "sql.Open"
  /\ pc' = "db.Begin"
  /\ UNCHANGED <<idx, upstream, db, txnOpen, txnRows, reader, log, halt,
                 prevDone, call, ret>>

DbBegin ==
  /\ pc = "db.Begin"
  /\ txnOpen' = TRUE
  /\ txnRows' = <<>>
  /\ pc' = "db.Exec(drop)"
  /\ UNCHANGED <<idx, upstream, db, reader, log, halt, prevDone, call, ret>>

\* db.Exec(drop_stmt): on the pool, outside the transaction
ExecDrop ==
  /\ pc = "db.Exec(drop)"
  /\ db' = DropTable(db, table)
  /\ pc' = "reader.Read(header)"
  /\ UNCHANGED <<idx, upstream, txnOpen, txnRows, reader, log, halt, prevDone,
                 call, ret>>

\* record, _ := reader.Read(): the error is dropped
ReadHeader ==
  /\ pc = "reader.Read(header)"
  /\ reader' = Read(reader).reader
  /\ pc' = "db.Exec(create)"
  /\ UNCHANGED <<idx, upstream, db, txnOpen, txnRows, log, halt, prevDone,
                 call, ret>>

\* db.Exec(create_stmt): on the pool, outside the transaction
ExecCreate ==
  /\ pc = "db.Exec(create)"
  /\ db' = CreateTable(db, buildCreateTableStatement(table))
  /\ pc' = "txn.Prepare"
  /\ UNCHANGED <<idx, upstream, txnOpen, txnRows, reader, log, halt, prevDone,
                 call, ret>>

Prepare ==
  /\ pc = "txn.Prepare"
  /\ pc' = "reader.Read"
  /\ UNCHANGED <<idx, upstream, db, txnOpen, txnRows, reader, log, halt,
                 prevDone, call, ret>>

\* err == io.EOF: break
ReadEOF ==
  /\ pc = "reader.Read"
  /\ Read(reader).err = "EOF"
  /\ pc' = "stmt.Exec()"
  /\ UNCHANGED <<idx, upstream, db, txnOpen, txnRows, reader, log, halt,
                 prevDone, call, ret>>

\* any other error: print it and break
ReadError ==
  /\ pc = "reader.Read"
  /\ Read(reader).err \notin {"EOF", "nil"}
  /\ reader' = Read(reader).reader
  /\ log' = Append(log, LogEntry("Error reading CSV data", "", 0))
  /\ pc' = "stmt.Exec()"
  /\ UNCHANGED <<idx, upstream, db, txnOpen, txnRows, halt, prevDone, call,
                 ret>>

\* a record shorter than the indices the branch reads: the runtime panics
RowPanic ==
  /\ pc = "reader.Read"
  /\ Read(reader).err = "nil"
  /\ IndexOutOfRange(table, Read(reader).record)
  /\ pc' = "panic"
  /\ halt' = "index out of range"
  /\ UNCHANGED <<idx, upstream, db, txnOpen, txnRows, reader, log, prevDone,
                 call, ret>>

\* stmt.Exec(c...): the typed row joins the batch of the transaction
RowInsert ==
  /\ pc = "reader.Read"
  /\ Read(reader).err = "nil"
  /\ ~IndexOutOfRange(table, Read(reader).record)
  /\ txnRows' = Append(txnRows, TypedRow(table, Read(reader).record))
  /\ reader' = Read(reader).reader
  /\ UNCHANGED <<pc, idx, upstream, db, txnOpen, log, halt, prevDone, call,
                 ret>>

\* stmt.Exec(c...) returns an error
RowInsertFatal ==
  /\ pc = "reader.Read"
  /\ Read(reader).err = "nil"
  /\ ~IndexOutOfRange(table, Read(reader).record)
  /\ pc' = "fatal"
  /\ halt' = "stmt.Exec(row)"
  /\ UNCHANGED <<idx, upstream, db, txnOpen, txnRows, reader, log, prevDone,
                 call, ret>>

\* result, err := stmt.Exec(): the batch is flushed inside the transaction
Flush ==
  /\ pc = "stmt.Exec()"
  /\ db' = FlushBatch(db, table, txnRows)
  /\ pc' = "stmt.Close"
  /\ UNCHANGED <<idx, upstream, txnOpen, txnRows, reader, log, halt, prevDone,
                 call, ret>>

StmtClose ==
  /\ pc = "stmt.Close"
  /\ pc' = "txn.Commit"
  /\ UNCHANGED <<idx, upstream, db, txnOpen, txnRows, reader, log, halt,
                 prevDone, call, ret>>

\* txn.Commit(), the row count is logged, processCSV returns and the loop
\* of main moves to the next file name
Commit ==
  /\ pc = "txn.Commit"
  /\ db' = CommitTxn(db, table, txnRows)
  /\ txnOpen' = FALSE
  /\ txnRows' = <<>>
  /\ log' = Append(log, LogEntry("row(s) copied", "", RowsAffected(txnRows)))
  /\ reader' = parseCSV(<<>>)
  /\ idx' = idx + 1
  /\ pc' = IF idx + 1 > Len(filenames) THEN "done" ELSE "http.Get"
  /\ UNCHANGED <<upstream, halt, prevDone, call, ret>>

\* the scheduled workflow starts the importer again after a run that went
\* through all the files: a new process against the same database and the
\* same upstream files; prevDone keeps the tables the finished run left
Rerun ==
  /\ pc = "done"
  /\ prevDone' = <<db>>
  /\ pc' = "godotenv.Load"
  /\ idx' = 1
  /\ txnOpen' = FALSE
  /\ txnRows' = <<>>
  /\ reader' = parseCSV(<<>>)
  /\ log' = <<>>
  /\ halt' = ""
  /\ UNCHANGED <<upstream, db, call, ret>>

Next ==
  \/ LoadEnv \/ HttpGet \/ ReadAll \/ ReadAllError \/ SqlOpen \/ DbBegin
  \/ ExecDrop \/ ReadHeader \/ ExecCreate \/ Prepare \/ ReadEOF \/ ReadError
  \/ RowPanic \/ RowInsert \/ RowInsertFatal \/ Flush \/ StmtClose \/ Commit
  \/ LogFatal \/ Rerun

Spec == Init /\ [][Next]_vars

(***************************************************************************)
(* The row transformer and the schema lookup on their own: one call with   *)
(* an input drawn from a bounded set.                                      *)
(***************************************************************************)
\* the runways record
\* 1,1000,KXYZ,9000,150,ASPH,1,0,09,12.34,-98.76,500,90,0,27,12.34,-98.76,500,270,0
ExampleRunwaysRecord ==
  << <<"1">>, <<"1", "0", "0", "0">>, <<"K", "X", "Y", "Z">>,
     <<"9", "0", "0", "0">>, <<"1", "5", "0">>, <<"A", "S", "P", "H">>,
     <<"1">>, <<"0">>, <<"0", "9">>, <<"1", "2", ".", "3", "4">>,
     <<"-", "9", "8", ".", "7", "6">>, <<"5", "0", "0">>, <<"9", "0">>,
     <<"0">>, <<"2", "7">>, <<"1", "2", ".", "3", "4">>,
     <<"-", "9", "8", ".", "7", "6">>, <<"5", "0", "0">>,
     <<"2", "7", "0">>, <<"0">> >>

BaseRecord(k) ==
  IF TableName(filenames[k]) = "dbo.runways" THEN ExampleRunwaysRecord
  ELSE SampleRecord(k, 1)

Alphabet == {"0", "1", "-", "+", " ", "a", "."}

ShortTexts == UNION {[1..n -> Alphabet] : n \in 0..MaxLen}

\* a text alone, or followed by the digits of 1<<63 - 1 or of 1<<63
Texts == {s \o t : s \in ShortTexts, t \in {<<>>, MaxInt64Mag, MinInt64Mag}}

\* the calls for dataset k: its base record, and the base record with one
\* field replaced by a text
TypedRowCalls(k) ==
  {[fn |-> "TypedRow", table |-> TableName(filenames[k]),
    record |-> BaseRecord(k)]}
  \cup
  {[fn |-> "TypedRow", table |-> TableName(filenames[k]),
    record |-> [BaseRecord(k) EXCEPT ![p] = txt]] :
     p \in 1..publishedColumns[k], txt \in Texts}

UnknownNames ==
  {"", "airports", "dbo.foo", "dbo.Airports", "dbo.airport-frequencies"}
    \cup {"dbo." \o Join(filenames[k]) : k \in Datasets}

LookupCalls ==
  {[fn |-> "buildCreateTableStatement", table |-> n, record |-> <<>>] :
     n \in Tables \cup UnknownNames}

InitPure ==
  /\ pc = "godotenv.Load"
  /\ idx = 1
  /\ upstream = [k \in Datasets |-> FullFile]
  /\ db = [t \in Tables |-> NoTable]
  /\ txnOpen = FALSE
  /\ txnRows = <<>>
  /\ reader = parseCSV(<<>>)
  /\ log = <<>>
  /\ halt = ""
  /\ prevDone = <<>>
  /\ \/ call \in LookupCalls
     \/ \E k \in Datasets : call \in TypedRowCalls(k)
  /\ ret = <<>>

CallTypedRow ==
  /\ call.fn = "TypedRow"
  /\ ret = <<>>
  /\ ~IndexOutOfRange(call.table, call.record)
  /\ ret' = <<TypedRow(call.table, call.record)>>
  /\ UNCHANGED <<pipelineVars, call>>

CallBuildCreateTableStatement ==
  /\ call.fn = "buildCreateTableStatement"
  /\ ret = <<>>
  /\ ret' = <<buildCreateTableStatement(call.table)>>
  /\ UNCHANGED <<pipelineVars, call>>

NextPure == CallTypedRow \/ CallBuildCreateTableStatement

SpecPure == InitPure /\ [][NextPure]_vars

(***************************************************************************)
(* Properties.                                                             *)
(***************************************************************************)
TableOf(k) == TableName(filenames[k])

Status2xx(k) == Response(k, upstream[k]).status \in 200..299

\* the positions of the process at which the DROP of the current dataset
\* has been executed and its transaction is not committed
AfterDropSteps ==
  {"reader.Read(header)", "db.Exec(create)", "txn.Prepare", "reader.Read",
   "stmt.Exec()", "stmt.Close", "txn.Commit"}

AfterDropHalts ==
  {"db.Exec(create)", "txn.Prepare", "stmt.Exec(row)", "index out of range",
   "stmt.Exec()", "stmt.Close", "txn.Commit"}

HaltedAfterDrop == pc \in {"fatal", "panic"} /\ halt \in AfterDropHalts

Downloads == SelectSeq(log, LAMBDA e : e.msg = "Downloading")

Copied == SelectSeq(log, LAMBDA e : e.msg = "row(s) copied")

\* C1: after a fetch that returned a non-2xx status the run ends before any
\* DROP TABLE or CREATE TABLE of that dataset or of a later one: the DROP of
\* a dataset whose response is not 2xx is never executed, and no dataset
\* after it is reached.
C1_NoDropAfterNon2xx ==
  /\ (idx \in Datasets /\ ~Status2xx(idx))
       => ~(pc \in AfterDropSteps \/ HaltedAfterDrop)
  /\ \A k \in Datasets : k < idx => Status2xx(k)

\* the lines of the fetched CSV after the header that decode to a record
DataRecords(k) ==
  LET body == Response(k, upstream[k]).body
  IN  Cardinality({i \in 2..Len(body) : ~body[i].bad})

\* C2: no partial success: once the driver is past a dataset, the table of
\* that dataset holds one committed row for every data record of its CSV,
\* and after an error while reading a CSV no further dataset is started.
C2_NoPartialSuccess ==
  /\ \A k \in Datasets :
       k < idx => /\ db[TableOf(k)].exists
                  /\ Len(db[TableOf(k)].rows) = DataRecords(k)
  /\ \A i \in 1..Len(log) :
       log[i].msg = "Error reading CSV data"
         => \A j \in (i + 1)..Len(log) : log[j].msg # "Downloading"

\* the value a runways column takes from the source column of its own name,
\* which is the source column at the same position
SameNameValue(p, rec) ==
  LET ty == runways_table_columns[p].type
      s  == TrimSpace(rec[p])
  IN  IF ty \in {"int", "int IDENTITY(1,1)"} THEN AtoiV(s)
      ELSE IF ty = "bit" THEN ParseBoolV(s)
      ELSE IF ty = "decimal(12, 9)" THEN ParseFloatV(s)
      ELSE StringV(s)

\* C3: every column of a runways row is taken from the source column of the
\* same name (he_* from the source indices 14-19), and the example record is
\* loaded with length_ft=9000, width_ft=150, lighted=true, closed=false,
\* le_heading_degT=90 and he_heading_degT=270.
C3_RunwaysSameNameColumns ==
  (call.fn = "TypedRow" /\ call.table = "dbo.runways" /\ ret # <<>>)
    => /\ \A p \in 1..Len(runways_table_columns) :
            ret[1][p] = SameNameValue(p, call.record)
       /\ call.record = ExampleRunwaysRecord
            => /\ ret[1][4] = IntV(<<"9", "0", "0", "0">>)
               /\ ret[1][5] = IntV(<<"1", "5", "0">>)
               /\ ret[1][7] = BoolV(TRUE)
               /\ ret[1][8] = BoolV(FALSE)
               /\ ret[1][13] = IntV(<<"9", "0">>)
               /\ ret[1][19] = IntV(<<"2", "7", "0">>)

\* a base-10 numeral with an optional sign whose value an int holds
ParsesAsInt(s) ==
  LET signed == s # <<>> /\ s[1] \in {"+", "-"}
      body   == IF signed THEN Tail(s) ELSE s
  IN  /\ body # <<>>
      /\ \A i \in 1..Len(body) : body[i] \in Digits
      /\ ~MagGreater(StripLeadingZeros(body),
                     IF s[1] = "-" THEN MinInt64Mag ELSE MaxInt64Mag)

NumeralValue(s) ==
  LET signed == s[1] \in {"+", "-"}
      mag    == StripLeadingZeros(IF signed THEN Tail(s) ELSE s)
  IN  (IF s[1] = "-" /\ mag # <<"0">> THEN <<"-">> ELSE <<>>) \o mag

\* C4: a field that fails base-10 integer parsing yields 0: every integer
\* of a typed row is 0 or the value of a field of the record that parses as
\* an integer.
C4_UnparsableIntegerYieldsZero ==
  (call.fn = "TypedRow" /\ ret # <<>>)
    => \A p \in 1..Len(ret[1]) :
         ret[1][p].t = "int"
           => \/ ret[1][p].v = <<"0">>
              \/ \E i \in 1..Len(call.record) :
                   /\ ParsesAsInt(TrimSpace(call.record[i]))
                   /\ ret[1][p].v = NumeralValue(TrimSpace(call.record[i]))

\* the Go type the transformer has to hand over for a column type
GoTypeOf(ty) ==
  IF ty \in {"int", "int IDENTITY(1,1)"} THEN "int"
  ELSE IF ty = "bit" THEN "bool"
  ELSE IF ty = "decimal(12, 9)" THEN "float64"
  ELSE "string"

RowMatches(row, cols, count) ==
  /\ Len(row) = count
  /\ Len(cols) = count
  /\ \A i \in 1..count : row[i].t = GoTypeOf(cols[i].type)

DeclaredCount == <<18, 6, 6, 20, 8, 20>>

\* C5: every typed row handed to the bulk insert, and every row committed
\* by this run, has as many fields as the column list the table was created
\* with (18, 6, 6, 20, 8, 20), of the kinds of those columns in their order.
C5_RowMatchesColumns ==
  /\ idx \in Datasets
       => \A i \in 1..Len(txnRows) :
            RowMatches(txnRows[i], db[table].cols, DeclaredCount[idx])
  /\ \A k \in Datasets :
       k < idx => \A i \in 1..Len(db[TableOf(k)].rows) :
                    RowMatches(db[TableOf(k)].rows[i], db[TableOf(k)].cols,
                               DeclaredCount[k])

C5_Witness ==
  /\ pc = "done"
  /\ \A t \in Tables : Len(db[t].rows) = MaxRows

\* C6: a finished run leaves no row that was in a table before it, and a
\* second finished run over the same upstream files leaves every table with
\* the rows the first one left.
C6_Idempotent ==
  pc = "done"
    => /\ \A t \in Tables :
            /\ db[t].exists
            /\ \A i \in 1..Len(db[t].rows) : db[t].rows[i] # StaleRow
       /\ prevDone # <<>> => db = prevDone[1]

C6_Witness ==
  /\ pc = "done"
  /\ prevDone # <<>>
  /\ \A t \in Tables : prevDone[1][t].rows # <<>>

HeaderOnly(k) == upstream[k] = Variant("ok", 0)

\* C7: for a CSV of a header row and no data row the table is dropped and
\* created, the empty batch is flushed and committed, 0 rows are reported,
\* the table exists and is empty, and the driver goes on to the next
\* dataset.
C7_HeaderOnlyLoadsEmptyTable ==
  \A k \in Datasets :
    HeaderOnly(k)
      => /\ (idx = k /\ pc \in {"txn.Prepare", "reader.Read", "stmt.Exec()",
                                "stmt.Close", "txn.Commit"})
              => /\ db[TableOf(k)].exists
                 /\ db[TableOf(k)].rows = <<>>
                 /\ txnRows = <<>>
         /\ (idx = k /\ pc = "reader.Read") => Read(reader).err = "EOF"
         /\ idx > k
              => /\ db[TableOf(k)].exists
                 /\ db[TableOf(k)].rows = <<>>
                 /\ db[TableOf(k)].cols # <<>>
                 /\ Copied[k].n = 0

C7_Witness ==
  \E k \in Datasets :
    /\ HeaderOnly(k)
    /\ idx = k + 1
    /\ pc \in {"http.Get", "done"}
    /\ Len(Copied) = k

DeclaredOrder ==
  <<"airports.csv", "airport-frequencies.csv", "countries.csv",
    "navaids.csv", "regions.csv", "runways.csv">>

\* C8: the files are fetched in the declared order, the fetch of a dataset
\* starts only when the transactions of all the datasets before it are
\* committed, and an open transaction belongs to the dataset fetched last.
C8_SequentialInOrder ==
  /\ Len(Downloads) <= Len(DeclaredOrder)
  /\ \A i \in 1..Len(Downloads) : Downloads[i].file = DeclaredOrder[i]
  /\ Len(Downloads) - Len(Copied) \in {0, 1}
  /\ txnOpen => Len(Downloads) = Len(Copied) + 1
  /\ pc = "http.Get" => /\ ~txnOpen
                        /\ Len(Copied) = idx - 1
                        /\ Len(Downloads) = idx - 1

C8_Witness ==
  /\ pc = "done"
  /\ Len(Downloads) = Len(DeclaredOrder)
  /\ Len(Copied) = Len(DeclaredOrder)

DeclaredColumns ==
  "dbo.airports" :> airport_table_columns
    @@ "dbo.airport_frequencies" :> airport_frequency_table_columns
    @@ "dbo.countries" :> countries_table_columns
    @@ "dbo.navaids" :> navaids_table_columns
    @@ "dbo.regions" :> regions_table_columns
    @@ "dbo.runways" :> runways_table_columns

\* C9: the lookup returns the own columns of each of the six tables, and
\* for any other name it returns the columns of none of the six.
C9_UnknownDatasetRejected ==
  (call.fn = "buildCreateTableStatement" /\ ret # <<>>)
    => IF call.table \in DOMAIN DeclaredColumns
         THEN ret[1].cols = DeclaredColumns[call.table]
       ELSE \A t \in DOMAIN DeclaredColumns : ret[1].cols # DeclaredColumns[t]

\* C10: when the process ended fatally after the DROP of a dataset and
\* before its commit, the table of that dataset is absent or empty.
C10_HaltBetweenDropAndCommit ==
  (idx \in Datasets /\ HaltedAfterDrop)
    => \/ ~db[table].exists
       \/ db[table].rows = <<>>

C10_Witness ==
  /\ pc = "fatal"
  /\ halt = "stmt.Close"
  /\ txnRows # <<>>
  /\ prevDone # <<>>
  /\ prevDone[1][table].rows # <<>>
  /\ db[table].exists

====
